---- MODULE Spec2Model ----
(***************************************************************************)
(* Model of tools/create_report.py: a script that builds a word-processing *)
(* document from a text, one paragraph per "\n\n"-separated piece of the   *)
(* text, saves it to a fixed path and prints a confirmation line.          *)
(*                                                                         *)
(* A text is a sequence of one-character strings.  One process run is the  *)
(* module body executed top to bottom; the model lets the script be run a  *)
(* second time against the same file system.                               *)
(***************************************************************************)
EXTENDS Integers, Sequences, FiniteSets, TLC

VARIABLES
    report,       \* the text the script is run on (line 5)
    pc,           \* the statement the process is about to execute
    doc,          \* the in-memory Document (line 154)
    segs,         \* the list the for statement iterates (line 159)
    i,            \* 1-based index of the next element of segs
    output_path,  \* line 163
    stdout,       \* lines printed by this process
    error,        \* the uncaught exception that ended the process, or "none"
    exitStatus,   \* process exit status, -1 while running
    nCreated,     \* number of Document() calls made by this process
    nSaveCalls,   \* number of doc.save calls made by this process
    nWrites,      \* number of doc.save calls of this process that wrote the file
    disk,         \* the file at the output path
    diskAtStart,  \* the file at the output path when this process started
    writable,     \* whether the output path can be opened for writing
    run,          \* 1 for the first run of the script, 2 for the second
    written       \* the file contents left by each successful save, in order

vars == <<report, pc, doc, segs, i, output_path, stdout, error, exitStatus,
          nCreated, nSaveCalls, nWrites, disk, diskAtStart, writable, run,
          written>>

----------------------------------------------------------------------------
(* Bounds and inputs *)

MaxLen == 5

Alphabet == {"A", "B", " ", "\n"}

RECURSIVE SeqsUpTo(_, _)
SeqsUpTo(S, n) ==
    IF n = 0 THEN {<<>>}
    ELSE LET shorter == SeqsUpTo(S, n - 1)
         IN  shorter \cup {Append(s, c) : s \in shorter, c \in S}

\* the two scenario texts: "A\n\nB\n\nC" and "\n\nA\n\n\n\nB\n\n"
ScenarioTexts ==
    { <<"A", "\n", "\n", "B", "\n", "\n", "C">>,
      <<"\n", "\n", "A", "\n", "\n", "\n", "\n", "B", "\n", "\n">> }

\* texts with an empty and with a whitespace-only piece between two others:
\* "A\n\n\n\nB" and "A\n\n \n\nB"
EmptyPieceTexts ==
    { <<"A", "\n", "\n", "\n", "\n", "B">>,
      <<"A", "\n", "\n", " ", "\n", "\n", "B">> }

Texts == SeqsUpTo(Alphabet, MaxLen) \cup ScenarioTexts \cup EmptyPieceTexts

----------------------------------------------------------------------------
(* str.strip() and str.split(sep) *)

\* the characters str.strip() removes (the ASCII ones a TLA+ string can hold)
Whitespace == {" ", "\n", "\t", "\r", "\f"}

IsSpace(c) == c \in Whitespace

\* s.strip(): s without its leading and trailing whitespace
Strip(s) ==
    LET keep == {k \in 1..Len(s) : ~IsSpace(s[k])}
    IN  IF keep = {} THEN <<>>
        ELSE LET lo == CHOOSE k \in keep : \A m \in keep : k <= m
                 hi == CHOOSE k \in keep : \A m \in keep : k >= m
             IN  SubSeq(s, lo, hi)

\* s.find(sep, from): smallest index >= from where sep occurs in s, 0 if none
Find(s, sep, from) ==
    LET hits == {k \in from..(Len(s) - Len(sep) + 1) :
                    SubSeq(s, k, k + Len(sep) - 1) = sep}
    IN  IF hits = {} THEN 0
        ELSE CHOOSE k \in hits : \A m \in hits : k <= m

\* s.split(sep): the pieces between the occurrences of sep, found left to
\* right without overlap; always at least one piece
RECURSIVE SplitFrom(_, _, _)
SplitFrom(s, sep, from) ==
    LET k == Find(s, sep, from)
    IN  IF k = 0 THEN <<SubSeq(s, from, Len(s))>>
        ELSE <<SubSeq(s, from, k - 1)>> \o SplitFrom(s, sep, k + Len(sep))

\* a split that leaves out the empty pieces
SplitSkipEmpty(s, sep) ==
    LET Filled(x) == x # <<>> IN SelectSeq(SplitFrom(s, sep, 1), Filled)

Split(s, sep) == SplitFrom(s, sep, 1)

\* the delimiter '\n\n' of line 159
Delim == <<"\n", "\n">>

----------------------------------------------------------------------------
(* The document object *)

FontName == "Arial"
FontSizePt == 11

\* the style the library's default template gives 'Normal': nothing set
TemplateFont == [name |-> "unset", size |-> 0]

NoDoc == [styles |-> [Normal |-> TemplateFont], paragraphs |-> <<>>]

\* Document(): a new document from the default template, with no paragraphs
NewDoc == [styles |-> [Normal |-> TemplateFont], paragraphs |-> <<>>]

\* a paragraph inserted at the front instead of the end
add_paragraph_first(d) ==
    [d EXCEPT !.paragraphs = <<[style |-> "Normal", runs |-> <<>>]>> \o @]

\* doc.add_paragraph(): a new paragraph of the default style with no runs,
\* appended at the end
add_paragraph(d) ==
    [d EXCEPT !.paragraphs = Append(@, [style |-> "Normal", runs |-> <<>>])]

\* a run added only when there is text to put in it
add_run_if_text(d, text) ==
    IF text = <<>> THEN d
    ELSE [d EXCEPT !.paragraphs[Len(d.paragraphs)].runs =
                        Append(@, [text |-> text, font |-> "inherit"])]

\* p.add_run(text), p the last paragraph: one more run, with that text and
\* no font of its own
add_run(d, text) ==
    [d EXCEPT !.paragraphs[Len(d.paragraphs)].runs =
                    Append(@, [text |-> text, font |-> "inherit"])]

\* the text of a paragraph: its runs' texts concatenated
RECURSIVE Concat(_)
Concat(ss) == IF ss = <<>> THEN <<>> ELSE Head(ss) \o Concat(Tail(ss))

ParagraphText(p) == Concat([k \in 1..Len(p.runs) |-> p.runs[k].text])

ParagraphTexts(d) == [k \in 1..Len(d.paragraphs) |-> ParagraphText(d.paragraphs[k])]

\* the font a paragraph is rendered with: its runs set none, so its style's
ParagraphFont(d, p) == d.styles[p.style]

OutputPath == "d:\\automation Assignment\\B9IS121_Report.docx"

NoFile == [exists |-> FALSE, content |-> NoDoc]

\* a file some other program left at the output path
OldFile ==
    [exists |-> TRUE,
     content |-> [styles |-> [Normal |-> TemplateFont],
                  paragraphs |-> <<[style |-> "Normal",
                                    runs |-> <<[text |-> <<"o", "l", "d">>,
                                                font |-> "inherit"]>>]>>]]

----------------------------------------------------------------------------
(* The process *)

Init ==
    /\ report \in Texts
    /\ pc = "new"
    /\ doc = NoDoc
    /\ segs = <<>>
    /\ i = 1
    /\ output_path = ""
    /\ stdout = <<>>
    /\ error = "none"
    /\ exitStatus = -1
    /\ nCreated = 0
    /\ nSaveCalls = 0
    /\ nWrites = 0
    /\ disk \in {NoFile, OldFile}
    /\ diskAtStart = disk
    /\ writable \in BOOLEAN
    /\ run = 1
    /\ written = <<>>

\* line 154: doc = Document()
NewDocument ==
    /\ pc = "new"
    /\ doc' = NewDoc
    /\ nCreated' = nCreated + 1
    /\ pc' = "font_name"
    /\ UNCHANGED <<report, segs, i, output_path, stdout, error, exitStatus,
                   nSaveCalls, nWrites, disk, diskAtStart, writable, run, written>>

\* line 155: doc.styles['Normal'].font.name = 'Arial'
SetFontName ==
    /\ pc = "font_name"
    /\ doc' = [doc EXCEPT !.styles.Normal.name = FontName]
    /\ pc' = "font_size"
    /\ UNCHANGED <<report, segs, i, output_path, stdout, error, exitStatus,
                   nCreated, nSaveCalls, nWrites, disk, diskAtStart, writable,
                   run, written>>

\* the size assignment left out
SetFontSizeSkipped ==
    /\ pc = "font_size"
    /\ pc' = "split"
    /\ UNCHANGED <<report, doc, segs, i, output_path, stdout, error, exitStatus,
                   nCreated, nSaveCalls, nWrites, disk, diskAtStart, writable,
                   run, written>>

\* line 156: doc.styles['Normal'].font.size = Pt(11)
SetFontSize ==
    /\ pc = "font_size"
    /\ doc' = [doc EXCEPT !.styles.Normal.size = FontSizePt]
    /\ pc' = "split"
    /\ UNCHANGED <<report, segs, i, output_path, stdout, error, exitStatus,
                   nCreated, nSaveCalls, nWrites, disk, diskAtStart, writable,
                   run, written>>

\* line 159, the iterable: report.strip().split('\n\n'), evaluated once
SplitReport ==
    /\ pc = "split"
    /\ segs' = Split(Strip(report), Delim)
    /\ i' = 1
    /\ pc' = "for"
    /\ UNCHANGED <<report, doc, output_path, stdout, error, exitStatus,
                   nCreated, nSaveCalls, nWrites, disk, diskAtStart, writable,
                   run, written>>

\* lines 159-161, one iteration: para is the next element;
\* p = doc.add_paragraph(); p.add_run(para.strip())
LoopBody ==
    /\ pc = "for"
    /\ i <= Len(segs)
    /\ LET para == segs[i]
       IN  doc' = add_run(add_paragraph(doc), Strip(para))
    /\ i' = i + 1
    /\ UNCHANGED <<report, pc, segs, output_path, stdout, error, exitStatus,
                   nCreated, nSaveCalls, nWrites, disk, diskAtStart, writable,
                   run, written>>

\* line 159, the iterable is exhausted; line 163: output_path = r"..."
LoopExit ==
    /\ pc = "for"
    /\ i > Len(segs)
    /\ output_path' = OutputPath
    /\ pc' = "save"
    /\ UNCHANGED <<report, doc, segs, i, stdout, error, exitStatus, nCreated,
                   nSaveCalls, nWrites, disk, diskAtStart, writable, run, written>>

\* the save indented into the loop body: one save after each iteration
SaveInsideLoop ==
    /\ pc = "for"
    /\ i > 1
    /\ nSaveCalls < i - 1
    /\ writable
    /\ disk' = [exists |-> TRUE, content |-> doc]
    /\ written' = Append(written, disk'.content)
    /\ nSaveCalls' = nSaveCalls + 1
    /\ nWrites' = nWrites + 1
    /\ UNCHANGED <<report, pc, doc, segs, i, output_path, stdout, error,
                   exitStatus, nCreated, diskAtStart, writable, run>>

\* a save that adds the document's paragraphs to the file already there
SaveAppendsToFile ==
    /\ pc = "save"
    /\ writable
    /\ disk' = [exists |-> TRUE,
                content |-> [doc EXCEPT !.paragraphs =
                                IF disk.exists THEN disk.content.paragraphs \o @
                                ELSE @]]
    /\ written' = Append(written, disk'.content)
    /\ nSaveCalls' = nSaveCalls + 1
    /\ nWrites' = nWrites + 1
    /\ pc' = "print"
    /\ UNCHANGED <<report, doc, segs, i, output_path, stdout, error, exitStatus,
                   nCreated, diskAtStart, writable, run>>

\* line 164: doc.save(output_path), the path can be opened for writing:
\* the file is created or truncated and holds the document
SaveOk ==
    /\ pc = "save"
    /\ writable
    /\ disk' = [exists |-> TRUE, content |-> doc]
    /\ written' = Append(written, disk'.content)
    /\ nSaveCalls' = nSaveCalls + 1
    /\ nWrites' = nWrites + 1
    /\ pc' = "print"
    /\ UNCHANGED <<report, doc, segs, i, output_path, stdout, error, exitStatus,
                   nCreated, diskAtStart, writable, run>>

\* a failing save that leaves an empty file behind
SaveFailLeavesFile ==
    /\ pc = "save"
    /\ ~writable
    /\ disk' = [exists |-> TRUE, content |-> NoDoc]
    /\ nSaveCalls' = nSaveCalls + 1
    /\ error' = "IOError"
    /\ exitStatus' = 1
    /\ pc' = "failed"
    /\ UNCHANGED <<report, doc, segs, i, output_path, stdout, nCreated, nWrites,
                   diskAtStart, writable, run, written>>

\* a failing save whose exception is caught and ignored
SaveFailSwallowed ==
    /\ pc = "save"
    /\ ~writable
    /\ nSaveCalls' = nSaveCalls + 1
    /\ pc' = "print"
    /\ UNCHANGED <<report, doc, segs, i, output_path, stdout, error, exitStatus,
                   nCreated, nWrites, disk, diskAtStart, writable, run, written>>

\* line 164: doc.save(output_path), the path cannot be opened for writing:
\* open() raises OSError (IOError), nothing catches it, the process ends
SaveFail ==
    /\ pc = "save"
    /\ ~writable
    /\ nSaveCalls' = nSaveCalls + 1
    /\ error' = "IOError"
    /\ exitStatus' = 1
    /\ pc' = "failed"
    /\ UNCHANGED <<report, doc, segs, i, output_path, stdout, nCreated, nWrites,
                   disk, diskAtStart, writable, run, written>>

\* line 165: print(f"Report written to: {output_path}"), then the script ends
PrintConfirmation ==
    /\ pc = "print"
    /\ stdout' = Append(stdout, <<"Report written to: ", output_path>>)
    /\ exitStatus' = 0
    /\ pc' = "done"
    /\ UNCHANGED <<report, doc, segs, i, output_path, error, nCreated,
                   nSaveCalls, nWrites, disk, diskAtStart, writable, run, written>>

\* the script is run a second time on the same text: a new process, the
\* file system as the first run left it
RunAgain ==
    /\ pc \in {"done", "failed"}
    /\ run = 1
    /\ run' = 2
    /\ pc' = "new"
    /\ doc' = NoDoc
    /\ segs' = <<>>
    /\ i' = 1
    /\ output_path' = ""
    /\ stdout' = <<>>
    /\ error' = "none"
    /\ exitStatus' = -1
    /\ nCreated' = 0
    /\ nSaveCalls' = 0
    /\ nWrites' = 0
    /\ diskAtStart' = disk
    /\ writable' \in BOOLEAN
    /\ UNCHANGED <<report, disk, written>>

Next ==
    \/ NewDocument
    \/ SetFontName
    \/ SetFontSize
    \/ SplitReport
    \/ LoopBody
    \/ LoopExit
    \/ SaveOk
    \/ SaveFail
    \/ PrintConfirmation
    \/ RunAgain

Spec == Init /\ [][Next]_vars

----------------------------------------------------------------------------
(* Blank-line segments of a text, read line by line *)

\* the lines of t: the pieces between its "\n" characters
LinesOf(t) ==
    LET F[k \in 0..Len(t)] ==
            IF k = 0 THEN << <<>> >>
            ELSE LET prev == F[k - 1]
                 IN  IF t[k] = "\n" THEN Append(prev, <<>>)
                     ELSE [prev EXCEPT ![Len(prev)] = Append(@, t[k])]
    IN  F[Len(t)]

\* the maximal groups of consecutive non-empty lines of t, each joined by "\n"
BlankLineSegments(t) ==
    LET ls == LinesOf(t)
        G[k \in 0..Len(ls)] ==
            IF k = 0 THEN [done |-> <<>>, cur |-> <<>>, open |-> FALSE]
            ELSE LET g == G[k - 1]
                 IN  IF ls[k] = <<>>
                     THEN IF g.open
                          THEN [done |-> Append(g.done, g.cur), cur |-> <<>>,
                                open |-> FALSE]
                          ELSE g
                     ELSE IF g.open
                          THEN [g EXCEPT !.cur = @ \o <<"\n">> \o ls[k]]
                          ELSE [g EXCEPT !.cur = ls[k], !.open = TRUE]
        last == G[Len(ls)]
    IN  IF last.open THEN Append(last.done, last.cur) ELSE last.done

TrimmedSegments(t) ==
    LET ss == BlankLineSegments(t) IN [k \in 1..Len(ss) |-> Strip(ss[k])]

NonEmpty(s) == s # <<>>

NonEmptySegments(t) == SelectSeq(TrimmedSegments(t), NonEmpty)

\* the loop of lines 159-161 has finished
LoopFinished == pc \in {"save", "print", "done", "failed"}

\* this process has saved the document
Saved == pc \in {"print", "done"}

----------------------------------------------------------------------------
(* Claims *)

\* C1: for a text with k blank-line-separated non-empty segments, once the
\* loop has finished the document holds exactly k paragraphs and the i-th
\* paragraph's text is the i-th non-empty segment, trimmed.
C1_ParagraphsAreNonEmptySegments ==
    LoopFinished => ParagraphTexts(doc) = NonEmptySegments(report)

\* C2: empty segments are skipped: in every reachable state no paragraph of
\* the document has empty text.
C2_NoEmptyParagraph ==
    \A k \in 1..Len(doc.paragraphs) : ParagraphText(doc.paragraphs[k]) # <<>>

\* the text's segments are all non-empty and separated by exactly one blank
\* line: no run of three newlines, no newline at either end
SingleBlankLineSeparated(t) ==
    /\ t # <<>>
    /\ t[1] # "\n"
    /\ t[Len(t)] # "\n"
    /\ \A k \in 1..(Len(t) - 2) : ~(t[k] = "\n" /\ t[k + 1] = "\n" /\ t[k + 2] = "\n")
    /\ \A k \in 1..Len(BlankLineSegments(t)) : Strip(BlankLineSegments(t)[k]) # <<>>

\* C3: for a text whose segments are all non-empty and separated by exactly
\* one blank line, the paragraph texts of the saved document are the trimmed
\* segments in source order: nothing reordered, duplicated or left out.
C3_SavedInSourceOrder ==
    (Saved /\ SingleBlankLineSeparated(report))
        => /\ disk.exists
           /\ ParagraphTexts(disk.content) = TrimmedSegments(report)

C3_Witness ==
    /\ pc = "done"
    /\ report = <<"A", "\n", "\n", "B", "\n", "\n", "C">>
    /\ ParagraphTexts(disk.content) = << <<"A">>, <<"B">>, <<"C">> >>

\* sequence q is sequence s with one element added at the end
IsAppend(s, q) == Len(q) = Len(s) + 1 /\ SubSeq(q, 1, Len(s)) = s

C4_Counts ==
    /\ nCreated <= 1
    /\ nSaveCalls <= 1
    /\ pc \in {"done", "failed"} => nCreated = 1 /\ nSaveCalls = 1
    /\ pc = "done" => nWrites = 1
    /\ nSaveCalls >= 1 => i > Len(segs) /\ Len(doc.paragraphs) = Len(segs)
    /\ nWrites >= 1 => disk.content = doc

C4_Step ==
    run' = run =>
        /\ nCreated >= 1 =>
              \/ doc'.paragraphs = doc.paragraphs
              \/ IsAppend(doc.paragraphs, doc'.paragraphs)
        /\ nSaveCalls >= 1 => doc' = doc

\* C4: the document is created once, its paragraphs change only by one
\* paragraph being appended at a time, doc.save is called exactly once, after
\* the last append, and the document is not changed after that call.
C4_Lifecycle == [](C4_Counts) /\ [][C4_Step]_vars

C4_Witness == pc = "done" /\ Len(doc.paragraphs) >= 2 /\ nSaveCalls = 1

ConfiguredFont == [name |-> FontName, size |-> FontSizePt]

C5_Styled ==
    /\ \A k \in 1..Len(doc.paragraphs) :
          ParagraphFont(doc, doc.paragraphs[k]) = ConfiguredFont
    /\ nWrites >= 1 =>
          \A k \in 1..Len(disk.content.paragraphs) :
              ParagraphFont(disk.content, disk.content.paragraphs[k]) = ConfiguredFont

C5_StyleStep ==
    (run' = run /\ doc.styles.Normal = ConfiguredFont) => doc'.styles = doc.styles

\* C5: the default style is Arial 11 pt before the first paragraph is
\* appended and does not change afterwards, so every paragraph of the
\* document, in every state and in the saved file, has that font and size.
C5_DefaultStyle == [](C5_Styled) /\ [][C5_StyleStep]_vars

C5_Witness ==
    /\ pc = "done"
    /\ Len(disk.content.paragraphs) >= 2
    /\ ParagraphFont(disk.content, disk.content.paragraphs[2]) = ConfiguredFont

C6_Failed ==
    /\ (nSaveCalls >= 1 /\ ~writable) =>
          /\ pc = "failed"
          /\ error = "IOError"
          /\ exitStatus = 1
          /\ nWrites = 0
          /\ nSaveCalls = 1
          /\ disk = diskAtStart
    /\ pc = "failed" <=> error = "IOError"

C6_NoRecovery ==
    (pc = "failed" /\ run' = run) =>
        UNCHANGED <<pc, doc, disk, nSaveCalls, nWrites, error, exitStatus>>

\* C6: when the output path is not writable the save fails with an IOError,
\* the file at the output path is as it was (none is created), nothing is
\* retried and the run ends failed with a non-zero status.
C6_UnwritablePathFails == [](C6_Failed) /\ [][C6_NoRecovery]_vars

C6_Witness ==
    pc = "failed" /\ ~diskAtStart.exists /\ ~disk.exists /\ Len(doc.paragraphs) >= 2

\* C7: exactly one confirmation line, holding the output path, is printed by
\* a successful run, after the save has completed; none before the save and
\* none in a run whose save fails.
C7_OneConfirmationOnSuccess ==
    /\ Len(stdout) <= 1
    /\ stdout # <<>> => nWrites = 1 /\ stdout[1][2] = OutputPath /\ disk.exists
    /\ pc = "done" => Len(stdout) = 1
    /\ pc = "failed" => stdout = <<>>
    /\ error # "none" => stdout = <<>>

C7_Witness == pc = "done" /\ stdout = << <<"Report written to: ", OutputPath>> >>

\* C8: every paragraph of the document has exactly one run, whose text is
\* the trimmed segment the paragraph was made for.
C8_OneRunPerParagraph ==
    /\ Len(doc.paragraphs) <= Len(segs)
    /\ \A k \in 1..Len(doc.paragraphs) :
          /\ Len(doc.paragraphs[k].runs) = 1
          /\ doc.paragraphs[k].runs[1].text = Strip(segs[k])

C8_Witness ==
    /\ Len(doc.paragraphs) = 3
    /\ doc.paragraphs[2].runs[1].text = <<>>
    /\ doc.paragraphs[3].runs[1].text # <<>>

\* C9: two runs on the same text and output path leave files with the same
\* paragraph content (count, texts, order); each successful save replaces
\* the file, so the content does not depend on a file being there before.
C9_Idempotent ==
    /\ \A j, k \in 1..Len(written) :
          ParagraphTexts(written[j]) = ParagraphTexts(written[k])
    /\ nWrites >= 1 =>
          /\ disk.exists
          /\ ParagraphTexts(disk.content) = ParagraphTexts(doc)

C9_Witness ==
    /\ run = 2
    /\ pc = "done"
    /\ Len(written) = 2
    /\ Len(written[2].paragraphs) >= 2
    /\ diskAtStart.exists

\* number of occurrences of "\n\n" in s from index k on, counted left to
\* right without overlap
RECURSIVE CountDelimsFrom(_, _)
CountDelimsFrom(s, k) ==
    IF k + 1 > Len(s) THEN 0
    ELSE IF s[k] = "\n" /\ s[k + 1] = "\n"
         THEN 1 + CountDelimsFrom(s, k + 2)
         ELSE CountDelimsFrom(s, k + 1)

CountDelims(s) == CountDelimsFrom(s, 1)

Clean(t) ==
    /\ t # <<>> => ~IsSpace(t[1]) /\ ~IsSpace(t[Len(t)])
    /\ \A k \in 1..(Len(t) - 1) : ~(t[k] = "\n" /\ t[k + 1] = "\n")

\* C10: the loop appends one paragraph per element of the split of the
\* trimmed text on "\n\n": when it has finished the paragraph count is the
\* number of delimiter occurrences plus one, never zero, also for an empty
\* or all-whitespace text; no paragraph text starts or ends with whitespace
\* or contains "\n\n".
C10_OneParagraphPerSplitElement ==
    /\ LoopFinished =>
          /\ Len(doc.paragraphs) = CountDelims(Strip(report)) + 1
          /\ Len(doc.paragraphs) >= 1
          /\ ParagraphTexts(doc) =
                [k \in 1..Len(Split(Strip(report), Delim)) |->
                    Strip(Split(Strip(report), Delim)[k])]
    /\ \A k \in 1..Len(doc.paragraphs) : Clean(ParagraphText(doc.paragraphs[k]))

C10_Witness ==
    /\ LoopFinished
    /\ Strip(report) = <<>>
    /\ report # <<>>
    /\ ParagraphTexts(doc) = << <<>> >>

====
